---- MODULE Spec2Model ----
(***************************************************************************)
(* Request authentication and rate limiting layer of the onramp demo       *)
(* application: the in-memory rate limiter (app/utils/rateLimit.ts), the    *)
(* token signer (app/utils/sessionTokenApi.ts) and the POST / OPTIONS       *)
(* handlers of the session, order and fund-session routes.                  *)
(*                                                                         *)
(* Strings that the code takes apart (header values) are sequences of       *)
(* one-character strings; a header is a record [present, value], an absent  *)
(* header (headers.get(..) = null) has present = FALSE.                     *)
(***************************************************************************)
EXTENDS Integers, Sequences, FiniteSets, TLC

VARIABLES
    now,            \* Date.now(), in milliseconds
    rateLimitMap,   \* the module-level Map<string, RateLimitRecord>
    cfg,            \* the RateLimitConfig the caller passes to rateLimit
    lastCall,       \* history: the most recent rateLimit call, before and after
    win,            \* history: per client key, the calls of its current window
    solo,           \* history: per client key, the table its own calls alone produce
    env,            \* process.env, as the route modules read it
    handlers,       \* the route handler invocations in flight, one per slot
    payload,        \* the token payload one generateJWT call is building
    probes          \* history: the requests rateLimit has been called with

vars == <<now, rateLimitMap, cfg, lastCall, win, solo, env, handlers,
          payload, probes>>

(***************************************************************************)
(* Bounds of the model.                                                    *)
(***************************************************************************)
MaxNow == 4         \* the clock stops advancing here
MaxStep == 2        \* the largest advance of the clock in one step
MaxLimit == 2       \* the largest limit a caller configures
MaxWindowMs == 2    \* the longest window a caller configures
MaxCalls == 4       \* the most calls one client makes within one window

Limits == -1 .. MaxLimit
WindowDurations == 1 .. MaxWindowMs

(***************************************************************************)
(* Header values and requests.                                             *)
(***************************************************************************)
Absent == [present |-> FALSE, value |-> <<>>]
Header(v) == [present |-> TRUE, value |-> v]

\* 'anonymous', rateLimit.ts:41
Anonymous == <<"a", "n", "o", "n", "y", "m", "o", "u", "s">>

\* The requests the limiter is driven with: a forwarded list whose first
\* entry needs trimming, the same client named by x-real-ip only, a request
\* with neither header, and one whose two headers are empty strings.
RateLimitRequests ==
    { [xff |-> Header(<<" ", "1", ",", "2">>), realIp |-> Absent],
      [xff |-> Absent, realIp |-> Header(<<"1">>)],
      [xff |-> Absent, realIp |-> Absent],
      [xff |-> Header(<<>>), realIp |-> Header(<<>>)] }

\* String.prototype.split(',')[0]
SplitFirst(s) ==
    LET commas == {i \in 1 .. Len(s) : s[i] = ","}
    IN  IF commas = {} THEN s
        ELSE SubSeq(s, 1, (CHOOSE i \in commas : \A j \in commas : i <= j) - 1)

\* The line terminators and the white space String.prototype.trim() strips
LineTerminators == {"\n", "\r"}
WhiteSpace == {" ", "\t"} \cup LineTerminators

RECURSIVE TrimStart(_)
TrimStart(s) ==
    IF s # <<>> /\ Head(s) \in WhiteSpace THEN TrimStart(Tail(s)) ELSE s

RECURSIVE TrimEnd(_)
TrimEnd(s) ==
    IF s # <<>> /\ s[Len(s)] \in WhiteSpace
    THEN TrimEnd(SubSeq(s, 1, Len(s) - 1)) ELSE s

\* String.prototype.trim()
Trim(s) == TrimEnd(TrimStart(s))

ClientKey_untrimmed(request) ==
    LET forwarded == IF request.xff.present
                     THEN SplitFirst(request.xff.value) ELSE <<>>
        realIp == IF request.realIp.present THEN request.realIp.value ELSE <<>>
    IN  IF forwarded # <<>> THEN forwarded
        ELSE IF realIp # <<>> THEN realIp
        ELSE Anonymous

\* rateLimit.ts:38-41: a || b || 'anonymous', where null, undefined and ''
\* are falsy
ClientKey(request) ==
    LET forwarded == IF request.xff.present
                     THEN Trim(SplitFirst(request.xff.value)) ELSE <<>>
        realIp == IF request.realIp.present THEN request.realIp.value ELSE <<>>
    IN  IF forwarded # <<>> THEN forwarded
        ELSE IF realIp # <<>> THEN realIp
        ELSE Anonymous

ClientKeys == {ClientKey(r) : r \in RateLimitRequests}

(***************************************************************************)
(* The rate limiter, rateLimit.ts.                                         *)
(***************************************************************************)
NoRecord == [count |-> 0, resetTime |-> 0]

\* Map.prototype.get / has
MapHas(m, k) == k \in DOMAIN m
MapGet(m, k) == IF MapHas(m, k) THEN m[k] ELSE NoRecord

MapSet_dropsOthers(m, k, rec) == [x \in {k} |-> rec]

MapSet_keepsStored(m, k, rec) ==
    [x \in DOMAIN m \cup {k} |-> IF x \in DOMAIN m THEN m[x] ELSE rec]

\* Map.prototype.set
MapSet(m, k, rec) == [x \in DOMAIN m \cup {k} |-> IF x = k THEN rec ELSE m[x]]

MapDeleteAll_clears(m, ks) == [x \in {} |-> m[x]]

\* Map.prototype.delete over a set of keys
MapDeleteAll(m, ks) == [x \in DOMAIN m \ ks |-> m[x]]

WindowExpired_atReset(record, t) == t >= record.resetTime

\* rateLimit.ts:47, now > record.resetTime
WindowExpired(record, t) == t > record.resetTime

LimitExceeded_offByOne(record, config) == record.count > config.limit

LimitExceeded_twoLate(record, config) == record.count > config.limit + 1

\* rateLimit.ts:58, record.count >= config.limit
LimitExceeded(record, config) == record.count >= config.limit

NewRecord_countZero(t, config) == [count |-> 0, resetTime |-> t + config.windowMs]

\* rateLimit.ts:48-49, { count: 1, resetTime: now + config.windowMs }
NewRecord(t, config) == [count |-> 1, resetTime |-> t + config.windowMs]

rateLimit_rejectionRestartsWindow(m, request, config, t) ==
    LET ip == ClientKey(request)
        record == MapGet(m, ip)
    IN  IF ~MapHas(m, ip) \/ WindowExpired(record, t)
        THEN [map |-> MapSet(m, ip, NewRecord(t, config)),
              result |-> [success |-> TRUE,
                          remaining |-> config.limit - 1,
                          resetTime |-> t + config.windowMs]]
        ELSE IF LimitExceeded(record, config)
        THEN [map |-> MapSet(m, ip, [record EXCEPT
                                        !.resetTime = t + config.windowMs]),
              result |-> [success |-> FALSE,
                          remaining |-> 0,
                          resetTime |-> t + config.windowMs]]
        ELSE [map |-> MapSet(m, ip, [record EXCEPT !.count = @ + 1]),
              result |-> [success |-> TRUE,
                          remaining |-> config.limit - (record.count + 1),
                          resetTime |-> record.resetTime]]

\* rateLimit.ts:33-73: the table and the result after one call at time t
rateLimit(m, request, config, t) ==
    LET ip == ClientKey(request)
        record == MapGet(m, ip)
    IN  IF ~MapHas(m, ip) \/ WindowExpired(record, t)
        THEN [map |-> MapSet(m, ip, NewRecord(t, config)),
              result |-> [success |-> TRUE,
                          remaining |-> config.limit - 1,
                          resetTime |-> t + config.windowMs]]
        ELSE IF LimitExceeded(record, config)
        THEN [map |-> m,
              result |-> [success |-> FALSE,
                          remaining |-> 0,
                          resetTime |-> record.resetTime]]
        ELSE [map |-> MapSet(m, ip, [record EXCEPT !.count = @ + 1]),
              result |-> [success |-> TRUE,
                          remaining |-> config.limit - (record.count + 1),
                          resetTime |-> record.resetTime]]

SweptKeys_atReset(m, t) == {k \in DOMAIN m : t >= m[k].resetTime}

\* rateLimit.ts:12-19: the keys the periodic sweep deletes at time t
SweptKeys(m, t) == {k \in DOMAIN m : t > m[k].resetTime}

(***************************************************************************)
(* The route modules: api/session/route.ts, api/apple-pay/order/route.ts    *)
(* (the order route as its last revision in the file, lines 378-726) and    *)
(* api/fund/session/route.ts.                                               *)
(***************************************************************************)
MaxSyncDelayMs == 1 \* the clock's advance between two reads in one handler step

\* One handler invocation at a time: a request is answered before the next
\* one enters.
Slots == {"handler"}

\* { limit: 10, windowMs: 60000 }, session/route.ts:73 and order/route.ts:471
SessionLimit == 10
OrderLimit == 10
RouteWindowMs == 60000
\* { limit: 20, windowMs: 60000 }, fund/session/route.ts:59
FundLimit == 20

RouteConfig(route) ==
    [limit |-> IF route = "order" THEN OrderLimit
               ELSE IF route = "fund" THEN FundLimit
               ELSE SessionLimit,
     windowMs |-> RouteWindowMs]

\* The instants at which the handlers read the clock.
RouteTimes == {0, 59001, 60000, 60001}

\* session/route.ts:18-24 and fund/session/route.ts:6-12, the list used
\* when ALLOWED_ORIGINS is not set
SessionDefaultOrigins ==
    { "http://localhost:3000",
      "http://localhost:3001",
      "https://onramp-demo-application-git-main-coinbase-vercel.vercel.app",
      "https://www.onrampdemo.com" }

\* order/route.ts:384-393
OrderDefaultOrigins ==
    { "http://localhost:3000",
      "http://localhost:3001",
      "https://onramp-demo-application-git-main-coinbase-vercel.vercel.app",
      "https://onramp-demo-application.vercel.app",
      "https://www.onrampdemo.com",
      "https://onramp-demo-application-git-feature-appl-889240-coinbase-vercel.vercel.app" }

\* process.env: ALLOWED_ORIGINS as the entries split(',') yields when it is
\* set, and whether the key name and the key secret are configured.
DefaultEnv == [allowedOrigins |-> Absent, hasKeyName |-> TRUE, hasKeySecret |-> TRUE]

Envs ==
    { DefaultEnv,
      [DefaultEnv EXCEPT !.allowedOrigins = Header(<<"http://localhost:3000">>)],
      [DefaultEnv EXCEPT !.hasKeyName = FALSE],
      [DefaultEnv EXCEPT !.hasKeySecret = FALSE] }

\* process.env.ALLOWED_ORIGINS?.split(',') || [ ... ]
ALLOWED_ORIGINS(e, route) ==
    IF e.allowedOrigins.present
    THEN {e.allowedOrigins.value[i] : i \in 1 .. Len(e.allowedOrigins.value)}
    ELSE IF route = "order" THEN OrderDefaultOrigins ELSE SessionDefaultOrigins

\* The Origin headers requests arrive with: none, an empty value, an origin
\* every allow-list holds, one that only the order route's default list
\* holds, and a foreign one.
Origins ==
    { Absent,
      Header(""),
      Header("http://localhost:3000"),
      Header("https://onramp-demo-application.vercel.app"),
      Header("https://evil.example.com") }

\* JavaScript truthiness of headers.get(name): null and '' are falsy
Truthy(h) == h.present /\ h.value # ""

CorsHeadersFor_wildcard(value) ==
    ("Access-Control-Allow-Origin" :> "*")
        @@ ("Access-Control-Allow-Methods" :> "POST, OPTIONS")
        @@ ("Access-Control-Allow-Headers" :> "Content-Type, Authorization")
        @@ ("Access-Control-Max-Age" :> "86400")

NoHeaders == <<>>

CorsHeadersFor(value) ==
    ("Access-Control-Allow-Origin" :> value)
        @@ ("Access-Control-Allow-Methods" :> "POST, OPTIONS")
        @@ ("Access-Control-Allow-Headers" :> "Content-Type, Authorization")
        @@ ("Access-Control-Max-Age" :> "86400")

setCorsHeaders_reflectsAny(e, route, origin) ==
    IF Truthy(origin) THEN CorsHeadersFor(origin.value) ELSE NoHeaders

\* session/route.ts:26-40, order/route.ts:395-406
setCorsHeaders(e, route, origin) ==
    IF Truthy(origin) /\ origin.value \in ALLOWED_ORIGINS(e, route)
    THEN CorsHeadersFor(origin.value)
    ELSE NoHeaders

\* Object.keys(corsHeaders).length === 0
IsEmptyObject(h) == DOMAIN h = {}

\* A response: NextResponse.json(body, {status, headers}) has json = TRUE,
\* new NextResponse(null, {status, headers}) has no body.
JsonResponse(status, body, headers) ==
    [status |-> status, json |-> TRUE, body |-> body, headers |-> headers]

EmptyResponse(status, headers) ==
    [status |-> status, json |-> FALSE, body |-> <<>>, headers |-> headers]

NoResponse == [status |-> 0, json |-> FALSE, body |-> <<>>, headers |-> NoHeaders]

\* Math.ceil(a / b) for b > 0
CeilDiv(a, b) == -((-a) \div b)

\* Math.ceil((rateLimitResult.resetTime - Date.now()) / 1000)
RetryAfter(resetTime, t) == CeilDiv(resetTime - t, 1000)

\* session/route.ts:43-56, order/route.ts:409-422
OPTIONS(e, route, origin) ==
    LET corsHeaders == setCorsHeaders(e, route, origin)
    IN  IF IsEmptyObject(corsHeaders)
        THEN EmptyResponse(403, NoHeaders)
        ELSE EmptyResponse(204, corsHeaders)

\* session/route.ts:63, order/route.ts:461:
\* origin && Object.keys(corsHeaders).length === 0
OriginRejected(corsHeaders, origin) == Truthy(origin) /\ IsEmptyObject(corsHeaders)

UnauthorizedOriginResponse_noBody == EmptyResponse(403, NoHeaders)

\* session/route.ts:65-68, order/route.ts:463-466, fund/session/route.ts:52-55
UnauthorizedOriginResponse ==
    JsonResponse(403, "error" :> "Unauthorized origin", NoHeaders)

RateLimited_never(result) == FALSE

\* session/route.ts:75, order/route.ts:473: !rateLimitResult.success
RateLimited(result) == ~result.success

\* session/route.ts:81-96, order/route.ts:475-478 and
\* fund/session/route.ts:67-79
TooManyRequestsResponse(route, corsHeaders, result, retryAfter) ==
    IF route = "order"
    THEN JsonResponse(429,
                      "error" :> "Too many requests. Please try again later.",
                      corsHeaders)
    ELSE IF route = "fund"
    THEN JsonResponse(429,
                      ("error" :> "Too many requests. Please try again later.")
                          @@ ("retryAfter" :> retryAfter),
                      corsHeaders @@ ("Retry-After" :> retryAfter))
    ELSE JsonResponse(429,
                      ("error" :> "Too many requests. Please try again later.")
                          @@ ("retryAfter" :> retryAfter),
                      corsHeaders
                          @@ ("Retry-After" :> retryAfter)
                          @@ ("X-RateLimit-Limit" :> "10")
                          @@ ("X-RateLimit-Remaining" :> "0")
                          @@ ("X-RateLimit-Reset" :> result.resetTime))

\* session/route.ts:103, order/route.ts:485: !keyName || !keySecret
MissingCredentials(e) == ~e.hasKeyName \/ ~e.hasKeySecret

\* session/route.ts:105-110, order/route.ts:487-490
ConfigurationErrorResponse(corsHeaders) ==
    JsonResponse(500, "error" :> "Server configuration error", corsHeaders)

\* The outer catch: session/route.ts:271-279, order/route.ts:717-723,
\* fund/session/route.ts:149-155
CaughtErrorResponse(route, corsHeaders) ==
    JsonResponse(500,
                 "error" :> (IF route = "order" THEN "Failed to create order"
                             ELSE IF route = "fund" THEN "Internal server error"
                             ELSE "Failed to generate session token"),
                 corsHeaders)

\* session/route.ts:119-134 (the schema rejects the body),
\* order/route.ts:507-543 (a required field is missing, the phone number
\* does not match, the amount is not a positive number) and
\* fund/session/route.ts:85-90 (no address)
ValidationErrorResponse(route, body, corsHeaders) ==
    IF route = "fund"
    THEN JsonResponse(400, "error" :> "Address is required", corsHeaders)
    ELSE IF route # "order"
    THEN JsonResponse(400,
                      ("error" :> "Invalid request data")
                          @@ ("details" :> "the schema's messages"),
                      corsHeaders)
    ELSE IF body = "missing field"
    THEN JsonResponse(400,
                      ("error" :> "Missing required fields")
                          @@ ("details" :> "Missing: the missing fields")
                          @@ ("required" :> <<"email", "phoneNumber", "destinationAddress">>),
                      corsHeaders)
    ELSE IF body = "bad phone number"
    THEN JsonResponse(400,
                      ("error" :> "Invalid phone number format. Must be +1XXXXXXXXXX (US only)")
                          @@ ("example" :> "+12345678901"),
                      corsHeaders)
    ELSE JsonResponse(400,
                      "error" :> "Invalid amount. Must be a positive number",
                      corsHeaders)

generateJWT_swallowsFailure(parseAndSignOk, rawSignOk) ==
    IF parseAndSignOk THEN [threw |-> FALSE, token |-> "signed with the parsed key"]
    ELSE IF rawSignOk THEN [threw |-> FALSE, token |-> "signed with the raw key"]
    ELSE [threw |-> FALSE, token |-> "none"]

\* sessionTokenApi.ts:52-93: the try block (formatPrivateKey,
\* crypto.createPrivateKey, jwt.sign) returns the token or throws into the
\* catch block, whose jwt.sign with the raw key returns or throws to the caller
generateJWT(parseAndSignOk, rawSignOk) ==
    IF parseAndSignOk THEN [threw |-> FALSE, token |-> "signed with the parsed key"]
    ELSE IF rawSignOk THEN [threw |-> FALSE, token |-> "signed with the raw key"]
    ELSE [threw |-> TRUE, token |-> "none"]

\* order/route.ts:427-454: the SDK's generateJwt returns the token or throws;
\* the catch block logs and throws again
generateJWTForV2(sdkOk) ==
    IF sdkOk THEN [threw |-> FALSE, token |-> "signed by the SDK"]
    ELSE [threw |-> TRUE, token |-> "none"]

AuthenticationFailedResponse_generic(corsHeaders) ==
    JsonResponse(500, "error" :> "Internal server error", corsHeaders)

\* session/route.ts:185-190, order/route.ts:552-555
AuthenticationFailedResponse(corsHeaders) ==
    JsonResponse(500, "error" :> "Authentication failed", corsHeaders)

\* What fetch and response.text() yield: a response with a status and a
\* text that parses as JSON or does not, or a rejected promise.
UpstreamOutcomes ==
    { [rejected |-> FALSE, status |-> 200, parses |-> TRUE],
      [rejected |-> FALSE, status |-> 200, parses |-> FALSE],
      [rejected |-> FALSE, status |-> 401, parses |-> TRUE],
      [rejected |-> FALSE, status |-> 503, parses |-> FALSE],
      [rejected |-> TRUE, status |-> 0, parses |-> FALSE] }

\* session/route.ts:218-270, order/route.ts:660-716 and
\* fund/session/route.ts:129-147, where sessionResponse.json() is awaited
\* on both branches and throws into the outer catch when the text is not JSON
UpstreamResponse(route, corsHeaders, up) ==
    IF up.rejected THEN CaughtErrorResponse(route, corsHeaders)
    ELSE IF route = "fund" /\ ~up.parses
    THEN CaughtErrorResponse(route, corsHeaders)
    ELSE IF up.status \notin 200 .. 299
    THEN JsonResponse(up.status,
                      "error" :> (IF route = "order"
                                  THEN "Failed to create Apple Pay order"
                                  ELSE "Failed to generate session token"),
                      corsHeaders)
    ELSE IF ~up.parses
    THEN (IF route = "order" THEN CaughtErrorResponse(route, corsHeaders)
          ELSE JsonResponse(500, "error" :> "Invalid response from server",
                            corsHeaders))
    ELSE JsonResponse(200,
                      IF route = "order" THEN "orderId" :> "order"
                      ELSE "token" :> "token",
                      corsHeaders)

\* The requests the routes are driven with. A body is named by what
\* request.json() and the validation make of it: malformed when
\* request.json(), the destructuring or a string method called on a field
\* throws.
Routes == {"session", "order"}
Methods == {"POST", "OPTIONS"}
Bodies(route) ==
    IF route = "order"
    THEN {"malformed", "missing field", "bad phone number", "bad amount", "valid"}
    ELSE IF route = "fund"
    THEN {"malformed", "missing address", "valid"}
    ELSE {"malformed", "invalid", "valid"}
RouteClients ==
    { [xff |-> Header(<<"1">>), realIp |-> Absent],
      [xff |-> Absent, realIp |-> Absent] }

NoSign == [called |-> FALSE, first |-> FALSE, fallback |-> FALSE,
           threw |-> FALSE, token |-> "none"]

\* A value of a JSON body's field, as JavaScript sees it after the
\* destructuring: undefined when the field is not there.
Undefined == [kind |-> "undefined", str |-> <<>>, num |-> 0]
Str(chars) == [kind |-> "string", str |-> chars, num |-> 0]
Num(n) == [kind |-> "number", str |-> <<>>, num |-> n]

\* JavaScript truthiness of such a value: undefined, '' and 0 are falsy
JsTruthy(v) ==
    \/ v.kind = "string" /\ v.str # <<>>
    \/ v.kind = "number" /\ v.num # 0

\* No body has been read.
NoInput ==
    [read |-> FALSE, json |-> FALSE, email |-> Undefined,
     phoneNumber |-> Undefined, amount |-> Undefined,
     destinationAddress |-> Undefined]

\* No answer of the upstream API has been received.
NoUpstream == [rejected |-> FALSE, status |-> 0, parses |-> FALSE]

\* The headers of the request fund/session/route.ts:113-127 sends to the
\* session route: Content-Type only.
InternalClient == [xff |-> Absent, realIp |-> Absent]

IdleHandler ==
    [pc |-> "idle", route |-> "session", method |-> "POST", origin |-> Absent,
     client |-> [xff |-> Absent, realIp |-> Absent], host |-> Absent,
     internal |-> FALSE, body |-> "valid", input |-> NoInput,
     corsHeaders |-> NoHeaders, trace |-> <<>>, limited |-> "unchecked",
     retryAfter |-> 0, sign |-> NoSign, up |-> NoUpstream,
     resp |-> NoResponse]

(***************************************************************************)
(* History of the calls, kept beside the table and never read by it.       *)
(***************************************************************************)
NoResult == [success |-> FALSE, remaining |-> 0, resetTime |-> 0]

\* A window of a key, as a caller sees it: opened by the first call made
\* when the key has no window whose reset time is still ahead or current,
\* lasting until its reset time has passed.
NoWindow == [open |-> FALSE, calls |-> 0, rejected |-> 0, resetTime |-> 0]

NoCall == [made |-> FALSE, ip |-> <<>>, at |-> 0, had |-> FALSE,
           before |-> NoRecord, after |-> NoRecord, others |-> TRUE,
           result |-> NoResult, soloResult |-> NoResult,
           nth |-> 0, prev |-> NoWindow, opened |-> FALSE]

WindowOver(w, t) == ~w.open \/ t > w.resetTime

\* No generateJWT call is under way.
NoPayload ==
    [built |-> FALSE,
     claims |-> [iss |-> "cdp", nbf |-> 0, exp |-> 0, sub |-> "keyName",
                 uri |-> "POST api.developer.coinbase.com/onramp/v1/token"],
     nbfReadAt |-> 0, expReadAt |-> 0,
     jwt |-> [threw |-> FALSE, token |-> "none"]]

Init ==
    /\ now = 0
    /\ rateLimitMap = <<>>
    /\ cfg \in [limit : Limits, windowMs : WindowDurations]
    /\ lastCall = NoCall
    /\ win = [k \in ClientKeys |-> NoWindow]
    /\ solo = [k \in ClientKeys |-> <<>>]
    /\ env = DefaultEnv
    /\ handlers = [s \in Slots |-> IdleHandler]
    /\ payload = NoPayload
    /\ probes = <<>>

\* Time passes between two calls.
Tick ==
    /\ \E d \in 1 .. MaxStep :
          /\ now + d <= MaxNow
          /\ now' = now + d
    /\ UNCHANGED <<rateLimitMap, cfg, lastCall, win, solo, env, payload, probes, handlers>>

\* One call of rateLimit(request, cfg).
RateLimitCall ==
    \E request \in RateLimitRequests :
        LET ip == ClientKey(request)
            out == rateLimit(rateLimitMap, request, cfg, now)
            alone == rateLimit(solo[ip], request, cfg, now)
            w == win[ip]
            opens == WindowOver(w, now)
            w2 == IF opens
                  THEN [open |-> TRUE, calls |-> 1, rejected |-> 0,
                        resetTime |-> now + cfg.windowMs]
                  ELSE [w EXCEPT !.calls = @ + 1]
        IN  /\ opens \/ w.calls < MaxCalls
            /\ rateLimitMap' = out.map
            /\ solo' = [solo EXCEPT ![ip] = alone.map]
            /\ win' = [win EXCEPT ![ip] =
                          IF out.result.success THEN w2
                          ELSE [w2 EXCEPT !.rejected = @ + 1]]
            /\ lastCall' = [made |-> TRUE, ip |-> ip, at |-> now,
                            had |-> MapHas(rateLimitMap, ip),
                            before |-> MapGet(rateLimitMap, ip),
                            after |-> MapGet(out.map, ip),
                            others |-> \A k \in ClientKeys \ {ip} :
                                           /\ MapHas(out.map, k) = MapHas(rateLimitMap, k)
                                           /\ MapGet(out.map, k) = MapGet(rateLimitMap, k),
                            result |-> out.result,
                            soloResult |-> alone.result,
                            nth |-> w2.calls,
                            prev |-> w,
                            opened |-> opens]
            /\ UNCHANGED <<now, cfg, env, payload, probes, handlers>>

\* rateLimit.ts:12-19: the setInterval callback.
Sweep ==
    /\ SweptKeys(rateLimitMap, now) # {}
    /\ rateLimitMap' = MapDeleteAll(rateLimitMap, SweptKeys(rateLimitMap, now))
    /\ UNCHANGED <<now, cfg, lastCall, win, solo, env, payload, probes, handlers>>

Next == Tick \/ RateLimitCall \/ Sweep

Spec == Init /\ [][Next]_vars

(***************************************************************************)
(* The route handlers, one action per stretch of a handler that runs       *)
(* without suspending: up to the first await or the return, and from one   *)
(* await to the next.                                                      *)
(***************************************************************************)
InitRoutes ==
    /\ now = 0
    /\ rateLimitMap = <<>>
    /\ cfg = RouteConfig("session")
    /\ lastCall = NoCall
    /\ win = [k \in ClientKeys |-> NoWindow]
    /\ solo = [k \in ClientKeys |-> <<>>]
    /\ env \in Envs
    /\ handlers = [s \in Slots |-> IdleHandler]
    /\ payload = NoPayload
    /\ probes = <<>>

\* The clock's later readings within one synchronous stretch.
LaterReads(t) == {u \in RouteTimes : u >= t /\ u - t <= MaxSyncDelayMs}

Respond(h, response) == [h EXCEPT !.pc = "responded", !.resp = response]

\* fund/session/route.ts:95-100; a host name is the sequence of its pieces,
\* so that includes() is the test for a contiguous run of pieces
TrustedHosts ==
    { <<"localhost", ":3000">>,
      <<"localhost", ":3001">>,
      <<"onramp-demo-application-git-main-coinbase-vercel.vercel.app">>,
      <<"www.onrampdemo.com">> }

\* String.prototype.includes
Includes(str, part) ==
    \E i \in 1 .. Len(str) - Len(part) + 1 :
        SubSeq(str, i, i + Len(part) - 1) = part

\* request.headers.get('host') || 'localhost:3000'
HostOf(header) ==
    IF header.present /\ header.value # <<>> THEN header.value
    ELSE <<"localhost", ":3000">>

\* trustedHosts.some(trusted => host.includes(trusted))
HostTrusted(host) == \E trusted \in TrustedHosts : Includes(host, trusted)

\* The Host headers requests arrive with: none, this server's own name,
\* the name of the production deployment, a name of another server that
\* holds a trusted name, and a foreign name.
Hosts ==
    { Absent,
      Header(<<"localhost", ":3000">>),
      Header(<<"www.onrampdemo.com">>),
      Header(<<"localhost", ":3000", ".evil.example.com">>),
      Header(<<"evil.example.com">>) }

\* The session API URL of fund/session/route.ts:110-111 names this server.
ReachesThisServer(host) == host = <<"localhost", ":3000">>

\* fund/session/route.ts:104-107
InvalidHostResponse(corsHeaders) ==
    JsonResponse(403, "error" :> "Invalid host", corsHeaders)

\* A request arrives and its handler runs to its first await or return:
\* OPTIONS (session/route.ts:43-56, order/route.ts:409-422,
\* fund/session/route.ts:26-39) and POST up to `await request.json()`
\* (session/route.ts:58-114, order/route.ts:456-494,
\* fund/session/route.ts:45-82).
Arrive(s, route, method, origin, request, later) ==
    LET corsHeaders == setCorsHeaders(env, route, origin)
        h == [IdleHandler EXCEPT !.route = route, !.method = method,
                                 !.origin = origin, !.client = request.client,
                                 !.host = request.host,
                                 !.internal = request.internal,
                                 !.corsHeaders = corsHeaders]
        out == rateLimit(rateLimitMap, request.client, RouteConfig(route), now)
        checked == [h EXCEPT !.trace = <<"rateLimit">>,
                             !.limited = IF out.result.success
                                         THEN "admitted" ELSE "rejected"]
        retryAfter == RetryAfter(out.result.resetTime, later)
    IN  IF method = "OPTIONS"
        THEN /\ later = now
             /\ handlers' = [handlers EXCEPT ![s] =
                                Respond(h, OPTIONS(env, route, origin))]
             /\ UNCHANGED <<now, rateLimitMap>>
        ELSE IF OriginRejected(corsHeaders, origin)
        THEN /\ later = now
             /\ handlers' = [handlers EXCEPT ![s] =
                                Respond(h, UnauthorizedOriginResponse)]
             /\ UNCHANGED <<now, rateLimitMap>>
        ELSE IF RateLimited(out.result)
        THEN /\ now' = later
             /\ rateLimitMap' = out.map
             /\ handlers' = [handlers EXCEPT ![s] =
                                Respond([checked EXCEPT !.retryAfter = retryAfter],
                                        TooManyRequestsResponse(
                                            route, corsHeaders,
                                            out.result, retryAfter))]
        ELSE IF route # "fund" /\ MissingCredentials(env)
        THEN /\ later = now
             /\ rateLimitMap' = out.map
             /\ handlers' = [handlers EXCEPT ![s] =
                                Respond(checked,
                                        ConfigurationErrorResponse(corsHeaders))]
             /\ UNCHANGED now
        ELSE /\ later = now
             /\ rateLimitMap' = out.map
             /\ handlers' = [handlers EXCEPT ![s] =
                                [checked EXCEPT !.pc = "body"]]
             /\ UNCHANGED now

\* A request from outside: its route, method and headers are the caller's.
EnterFrom(s, routes, methods, origins, clients, hosts) ==
    /\ handlers[s].pc = "idle"
    /\ \E route \in routes, method \in methods, origin \in origins,
          client \in clients, host \in hosts, later \in LaterReads(now) :
          Arrive(s, route, method, origin,
                 [client |-> client, host |-> host, internal |-> FALSE], later)

Enter(s) ==
    /\ EnterFrom(s, Routes, Methods, Origins, RouteClients, {Absent})
    /\ UNCHANGED <<cfg, lastCall, win, solo, env, payload, probes>>

\* fund/session/route.ts:85-111, after request.json() has settled with an
\* address: the host is checked and fetch is called
FundForward(h) ==
    IF ~HostTrusted(HostOf(h.host))
    THEN Respond(h, InvalidHostResponse(h.corsHeaders))
    ELSE [h EXCEPT !.pc = "fetching", !.trace = Append(@, "fetch")]

\* What the handler does with the body it has read: the outer catch when
\* reading it threw, the 400 of the failed validation, or the next step.
Validated(h) ==
    IF h.body = "malformed"
    THEN Respond(h, CaughtErrorResponse(h.route, h.corsHeaders))
    ELSE IF h.body # "valid"
    THEN Respond(h, ValidationErrorResponse(h.route, h.body, h.corsHeaders))
    ELSE IF h.route = "fund"
    THEN FundForward(h)
    ELSE [h EXCEPT !.pc = "sign"]

\* request.json() settles; the body is validated
\* (session/route.ts:114-136, order/route.ts:494-543,
\* fund/session/route.ts:82-111). The body fund/session/route.ts:121-126
\* sends is the output of JSON.stringify.
ReadBody(s) ==
    /\ handlers[s].pc = "body"
    /\ \E body \in Bodies(handlers[s].route) :
          /\ handlers[s].internal => body # "malformed"
          /\ handlers' = [handlers EXCEPT ![s] =
                             Validated([handlers[s] EXCEPT !.body = body])]
    /\ UNCHANGED <<now, rateLimitMap, cfg, lastCall, win, solo, env, payload, probes>>

\* The token is signed and, when that succeeds, fetch is called
\* (session/route.ts:177-216, order/route.ts:545-658).
Sign(s) ==
    /\ handlers[s].pc = "sign"
    /\ \E first \in BOOLEAN, fallback \in BOOLEAN :
          LET h == handlers[s]
              jwt == IF h.route = "order" THEN generateJWTForV2(first)
                     ELSE generateJWT(first, fallback)
              signed == [h EXCEPT !.trace = Append(@, "sign"),
                                  !.sign = [called |-> TRUE, first |-> first,
                                            fallback |-> fallback,
                                            threw |-> jwt.threw,
                                            token |-> jwt.token]]
          IN  /\ h.route = "order" => ~fallback
              /\ handlers' = [handlers EXCEPT ![s] =
                     IF jwt.threw
                     THEN Respond(signed, AuthenticationFailedResponse(h.corsHeaders))
                     ELSE [signed EXCEPT !.pc = "fetching",
                                         !.trace = Append(@, "fetch")]]
    /\ UNCHANGED <<now, rateLimitMap, cfg, lastCall, win, solo, env, payload, probes>>

\* fetch and response.text() settle; the handler relays the outcome
\* (session/route.ts:208-279, order/route.ts:650-723); for the fund-session
\* route (fund/session/route.ts:113-155) when another server answers.
Upstream(s) ==
    /\ handlers[s].pc = "fetching"
    /\ handlers[s].route = "fund" => ~ReachesThisServer(HostOf(handlers[s].host))
    /\ \E up \in UpstreamOutcomes :
          handlers' = [handlers EXCEPT ![s] =
              Respond([handlers[s] EXCEPT !.up = up],
                      UpstreamResponse(handlers[s].route, handlers[s].corsHeaders, up))]
    /\ UNCHANGED <<now, rateLimitMap, cfg, lastCall, win, solo, env, payload, probes>>

\* The response has been sent to the client; the slot takes the next
\* request.
Deliver(s) ==
    /\ handlers[s].pc = "responded"
    /\ ~handlers[s].internal
    /\ handlers' = [handlers EXCEPT ![s] = IdleHandler]
    /\ UNCHANGED <<now, rateLimitMap, cfg, lastCall, win, solo, env, payload, probes>>

\* Time passes between two stretches.
TickRoutes ==
    /\ \E t \in RouteTimes : t > now /\ now' = t
    /\ UNCHANGED <<rateLimitMap, cfg, lastCall, win, solo, env, payload, probes, handlers>>

NextRoutes ==
    \/ TickRoutes
    \/ Sweep
    \/ \E s \in Slots : Enter(s)
    \/ \E s \in Slots : ReadBody(s)
    \/ \E s \in Slots : Sign(s)
    \/ \E s \in Slots : Upstream(s)
    \/ \E s \in Slots : Deliver(s)

SpecRoutes == InitRoutes /\ [][NextRoutes]_vars

(***************************************************************************)
(* Claims about the rate limiter, checked under Spec.                      *)
(***************************************************************************)
FreshRecord(t) == [count |-> 1, resetTime |-> t + cfg.windowMs]

\* C1: for a limit N >= 1, the call just made is admitted exactly when it is
\* one of the first N calls its client key made within the current window
\* (a window lasts until its reset time has passed: now > resetTime).
C1_AdmitsExactlyFirstN ==
    (lastCall.made /\ cfg.limit >= 1) =>
        (lastCall.result.success <=> lastCall.nth <= cfg.limit)

\* The call numbered limit + 2 of a window, rejected like the one before it.
C1_Witness ==
    /\ lastCall.made
    /\ cfg.limit >= 2
    /\ lastCall.nth = cfg.limit + 2
    /\ ~lastCall.result.success
    /\ lastCall.prev.rejected = 1

\* C2: the first call made after the client's window reset time has passed
\* is admitted and leaves the stored window at count = 1 and
\* resetTime = now + windowMs, whatever was admitted or rejected before.
C2_FreshWindowAfterReset ==
    (lastCall.made /\ lastCall.prev.open /\ lastCall.at > lastCall.prev.resetTime) =>
        /\ lastCall.result.success
        /\ lastCall.after = FreshRecord(lastCall.at)
        /\ lastCall.result.resetTime = lastCall.at + cfg.windowMs

\* A call after the reset time of a window in which calls were rejected.
C2_Witness ==
    /\ lastCall.made
    /\ lastCall.prev.open
    /\ lastCall.at > lastCall.prev.resetTime
    /\ lastCall.prev.rejected >= 2
    /\ lastCall.had
    /\ lastCall.result.success

\* The call left the stored count one higher and the reset time as it was.
Incremented(c) ==
    c.had /\ c.after = [c.before EXCEPT !.count = @ + 1]

\* C3, as stated: the count is incremented only at now < resetTime, and a
\* call at now >= resetTime (now = resetTime included) replaces the record
\* by a fresh window of count = 1.
C3_Original ==
    (lastCall.made /\ lastCall.had) =>
        /\ Incremented(lastCall) => lastCall.at < lastCall.before.resetTime
        /\ lastCall.at >= lastCall.before.resetTime =>
               lastCall.after = FreshRecord(lastCall.at)

\* C3, amended: the count is incremented only at now <= resetTime; a call
\* at now > resetTime replaces the record by a fresh window of count = 1;
\* a call at now = resetTime still counts against the stored window: it
\* increments the count or, at the limit, is rejected and changes nothing.
C3_ExpiryIsStrict ==
    (lastCall.made /\ lastCall.had) =>
        /\ Incremented(lastCall) => lastCall.at <= lastCall.before.resetTime
        /\ lastCall.at > lastCall.before.resetTime =>
               lastCall.after = FreshRecord(lastCall.at)
        /\ lastCall.at = lastCall.before.resetTime =>
               \/ Incremented(lastCall) /\ lastCall.result.success
               \/ lastCall.after = lastCall.before /\ ~lastCall.result.success

\* A call made exactly at the reset time that incremented the count.
C3_Witness ==
    /\ lastCall.made
    /\ lastCall.had
    /\ lastCall.at = lastCall.before.resetTime
    /\ Incremented(lastCall)

\* C4: with limit <= 0 every call is rejected, the first call of a key with
\* no stored window and the first call after an expiry included.
C4_NonPositiveLimitRejectsAll ==
    (lastCall.made /\ cfg.limit <= 0) => ~lastCall.result.success

\* C5: a call for one key leaves the stored record of every other key as it
\* was, and returns what the same key's calls alone, made at the same times
\* against a table no other key touches, return.
C5_KeysDoNotInterfere ==
    lastCall.made =>
        /\ lastCall.others
        /\ lastCall.result = lastCall.soloResult

\* The second call of a key's window, made while another key holds a live
\* window of its own with a different count.
C5_Witness ==
    /\ lastCall.made
    /\ lastCall.nth = 2
    /\ lastCall.result.success
    /\ \E k \in ClientKeys \ {lastCall.ip} :
           /\ MapHas(rateLimitMap, k)
           /\ win[k].open
           /\ win[k].rejected >= 1
           /\ now <= rateLimitMap[k].resetTime

(***************************************************************************)
(* Claims about the session and order routes, checked under SpecRoutes.    *)
(***************************************************************************)
Events(h) == {h.trace[i] : i \in 1 .. Len(h.trace)}

\* The Origin header names an origin that the route's allow-list lacks.
ForeignOrigin(h) == h.origin.value \notin ALLOWED_ORIGINS(env, h.route)

\* The answer to a request turned away for its origin: 403, no
\* Access-Control-Allow-Origin header, and no rate-limit call, signing or
\* outbound call made for it.
TurnedAway(h) ==
    /\ h.pc = "responded"
    /\ h.resp.status = 403
    /\ "Access-Control-Allow-Origin" \notin DOMAIN h.resp.headers
    /\ h.trace = <<>>
    /\ h.limited = "unchecked"
    /\ ~h.sign.called

\* C6: a POST to the order route that the rate limiter rejects (the 11th of
\* a client within the window) is answered 429 with a Retry-After header
\* holding the ceiling of (resetTime - now) / 1000.
C6_OrderRejectionCarriesRetryAfter ==
    \A s \in Slots :
        LET h == handlers[s]
        IN  (h.pc = "responded" /\ h.route = "order" /\ h.method = "POST"
                 /\ h.limited = "rejected") =>
                /\ h.resp.status = 429
                /\ "Retry-After" \in DOMAIN h.resp.headers
                /\ h.resp.headers["Retry-After"] = h.retryAfter

\* C7, as stated: every request whose Origin header is present and not in
\* the allow-list is answered 403 by OPTIONS and by POST, without an
\* Access-Control-Allow-Origin header and with nothing further done.
C7_Original ==
    \A s \in Slots :
        LET h == handlers[s]
        IN  (h.pc # "idle" /\ h.origin.present /\ ForeignOrigin(h)) => TurnedAway(h)

\* C7, amended: every request whose Origin header is present, not empty and
\* not in the allow-list is answered 403 by OPTIONS and by POST, without an
\* Access-Control-Allow-Origin header and with nothing further done.
C7_ForeignOriginTurnedAway ==
    \A s \in Slots :
        LET h == handlers[s]
        IN  (h.pc # "idle" /\ Truthy(h.origin) /\ ForeignOrigin(h)) => TurnedAway(h)

\* A POST from an origin outside the configured allow-list, turned away
\* while its client already holds a window in the table.
C7_Witness ==
    \E s \in Slots :
        LET h == handlers[s]
        IN  /\ h.method = "POST"
            /\ h.origin = Header("https://evil.example.com")
            /\ env.allowedOrigins.present
            /\ TurnedAway(h)
            /\ h.resp.body = ("error" :> "Unauthorized origin")
            /\ MapHas(rateLimitMap, ClientKey(h.client))

\* C8: in a POST handler the rate-limit call comes before the signing and
\* before the outbound call, and a request the rate limiter rejected is
\* answered without signing and without an outbound call.
C8_RateLimitBeforeSigning ==
    \A s \in Slots :
        LET h == handlers[s]
        IN  /\ \A i \in 1 .. Len(h.trace) :
                   h.trace[i] \in {"sign", "fetch"} =>
                       \E j \in 1 .. i - 1 : h.trace[j] = "rateLimit"
            /\ h.sign.called => "sign" \in Events(h)
            /\ h.limited = "rejected" =>
                   /\ h.pc = "responded"
                   /\ h.trace = <<"rateLimit">>
                   /\ ~h.sign.called

\* An admitted request that has signed and issued its outbound call, as the
\* tenth request of its client's window.
C8_Witness ==
    \E s \in Slots :
        LET h == handlers[s]
        IN  /\ h.pc = "fetching"
            /\ h.limited = "admitted"
            /\ h.trace = <<"rateLimit", "sign", "fetch">>
            /\ MapGet(rateLimitMap, ClientKey(h.client)).count = SessionLimit

\* C9: when the signing fails, the POST is answered 500 with the body
\* error 'Authentication failed' and no outbound call is made.
C9_SigningFailureAborts ==
    \A s \in Slots :
        LET h == handlers[s]
        IN  (h.sign.called /\ h.sign.threw) =>
                /\ h.pc = "responded"
                /\ h.resp.status = 500
                /\ h.resp.json
                /\ h.resp.body = ("error" :> "Authentication failed")
                /\ "fetch" \notin Events(h)

\* A signing failure on the order route.
C9_Witness ==
    \E s \in Slots :
        LET h == handlers[s]
        IN  /\ h.route = "order"
            /\ h.sign.called
            /\ h.sign.threw
            /\ h.pc = "responded"

\* C10: generateJWT returns a token only if the signing with the parsed key
\* or the fallback signing with the raw key succeeded; when both fail it
\* throws and returns nothing, and the handler goes on to its outbound call
\* only with a token.
C10_TokenOnlyFromASuccessfulSigning ==
    \A s \in Slots :
        LET h == handlers[s]
        IN  (h.sign.called /\ h.route = "session") =>
                /\ ~h.sign.threw => (h.sign.first \/ h.sign.fallback)
                /\ (~h.sign.first /\ ~h.sign.fallback) => h.sign.threw
                /\ h.sign.threw <=> h.sign.token = "none"
                /\ "fetch" \in Events(h) => h.sign.token # "none"

\* Both signing attempts failed in a session request.
C10_Witness ==
    \E s \in Slots :
        LET h == handlers[s]
        IN  /\ h.route = "session"
            /\ h.sign.called
            /\ ~h.sign.first
            /\ ~h.sign.fallback
            /\ h.sign.threw

(***************************************************************************)
(* generateJWT builds its payload (sessionTokenApi.ts:59-66): nbf and exp   *)
(* are each computed from a Date.now() of their own.                        *)
(***************************************************************************)
MaxSeconds == 3     \* the signer's clock runs from second 0 to this one

MsPerSecond == 1000
TokenLifetimeSeconds == 120

\* The instants the signer's clock shows: the first and second millisecond
\* of a second and its last one.
SignerTimes ==
    {sec * MsPerSecond + ms : sec \in 0 .. MaxSeconds, ms \in {0, 1, MsPerSecond - 1}}

\* Math.floor(Date.now() / 1000)
EpochSeconds(t) == t \div MsPerSecond

\* sessionTokenApi.ts:59-66, with the clock showing t1 at the read for nbf
\* and t2 at the read for exp
Payload(t1, t2) ==
    [iss |-> "cdp", nbf |-> EpochSeconds(t1),
     exp |-> EpochSeconds(t2) + TokenLifetimeSeconds,
     sub |-> "keyName", uri |-> "POST api.developer.coinbase.com/onramp/v1/token"]

InitSigner ==
    /\ now \in SignerTimes
    /\ rateLimitMap = <<>>
    /\ cfg = RouteConfig("session")
    /\ lastCall = NoCall
    /\ win = [k \in ClientKeys |-> NoWindow]
    /\ solo = [k \in ClientKeys |-> <<>>]
    /\ env = DefaultEnv
    /\ handlers = [s \in Slots |-> IdleHandler]
    /\ payload = NoPayload
    /\ probes = <<>>

\* Time passes between two calls of generateJWT.
TickSigner ==
    /\ \E t \in SignerTimes : t > now /\ now' = t
    /\ UNCHANGED <<rateLimitMap, cfg, lastCall, win, solo, env, handlers,
                   payload, probes>>

\* One call of generateJWT: the payload is built from two reads of the
\* clock, the second no earlier than the first, and signed.
GenerateJWT ==
    \E later \in {t \in SignerTimes : t >= now /\ t - now <= MaxSyncDelayMs},
       first \in BOOLEAN, fallback \in BOOLEAN :
        /\ payload' = [built |-> TRUE, claims |-> Payload(now, later),
                       nbfReadAt |-> now, expReadAt |-> later,
                       jwt |-> generateJWT(first, fallback)]
        /\ now' = later
        /\ UNCHANGED <<rateLimitMap, cfg, lastCall, win, solo, env, handlers,
                       probes>>

NextSigner == TickSigner \/ GenerateJWT

SpecSigner == InitSigner /\ [][NextSigner]_vars

\* C11: every payload generateJWT builds has exp = nbf + 120, however the
\* clock behaves between the read for nbf and the read for exp.
C11_ExpiryIs120AfterNotBefore ==
    payload.built =>
        payload.claims.exp = payload.claims.nbf + TokenLifetimeSeconds

(***************************************************************************)
(* The order route's validation of the body it has read                    *)
(* (order/route.ts:494-543), on bodies given field by field.                *)
(***************************************************************************)
MaxPhoneDigits == 11    \* the longest run of digits a phone number is built with

PhoneDigits == 10

Digits == {"0", "1", "2", "3", "4", "5", "6", "7", "8", "9"}

MatchesUSPhone_nineDigitsToo(str) ==
    /\ Len(str) \in {1 + PhoneDigits, 2 + PhoneDigits}
    /\ str[1] = "+"
    /\ str[2] = "1"
    /\ \A i \in 3 .. Len(str) : str[i] \in Digits

\* order/route.ts:525: phoneNumber.match(/^\+1\d{10}$/) is not null
MatchesUSPhone(str) ==
    /\ Len(str) = 2 + PhoneDigits
    /\ str[1] = "+"
    /\ str[2] = "1"
    /\ \A i \in 3 .. Len(str) : str[i] \in Digits

\* The digits 2, 3, .. 9, 0, 1, 2, .. : the first n of them
DigitRun(n) ==
    [i \in 1 .. n |->
        <<"0", "1", "2", "3", "4", "5", "6", "7", "8", "9">>[((i + 1) % 10) + 1]]

\* The phone numbers bodies arrive with: a run of digits after one of six
\* beginnings, with nothing, a letter or a line feed after it; no field; a
\* JSON number.
PhoneNumbers ==
    { Str(prefix \o DigitRun(n) \o suffix) :
          prefix \in { <<"+", "1">>, <<"1">>, <<"+">>, <<"+", "2">>,
                       <<" ", "+", "1">>, <<>> },
          n \in 0 .. MaxPhoneDigits,
          suffix \in { <<>>, <<"x">>, <<"\n">> } }
        \cup { Undefined, Num(1234567890) }

OrderInputs ==
    [ read : {TRUE}, json : {TRUE},
      email : {Undefined, Str(<<"a", "@", "b">>)},
      phoneNumber : PhoneNumbers,
      amount : {Undefined, Num(0), Num(-5), Num(25), Str(<<"a">>)},
      destinationAddress : {Undefined, Str(<<"0", "x", "1">>), Num(1)} ]
        \cup { [NoInput EXCEPT !.read = TRUE] }

\* order/route.ts:537: !amount || isNaN(amount) || amount <= 0, for a
\* number or a string that is not a numeral
InvalidAmount(amount) ==
    \/ ~JsTruthy(amount)
    \/ amount.kind = "string" /\ \E i \in 1 .. Len(amount.str) : amount.str[i] \notin Digits
    \/ amount.kind = "number" /\ amount.num <= 0

\* order/route.ts:493-543: what the handler makes of the body. substring is
\* called on a truthy phoneNumber and destinationAddress for the log line
\* (lines 499 and 503) and throws when the value is not a string.
OrderBody(input) ==
    IF ~input.json THEN "malformed"
    ELSE IF \/ JsTruthy(input.phoneNumber) /\ input.phoneNumber.kind # "string"
            \/ JsTruthy(input.destinationAddress)
                   /\ input.destinationAddress.kind # "string"
    THEN "malformed"
    ELSE IF \/ ~JsTruthy(input.email)
            \/ ~JsTruthy(input.phoneNumber)
            \/ ~JsTruthy(input.destinationAddress)
    THEN "missing field"
    ELSE IF ~MatchesUSPhone(input.phoneNumber.str) THEN "bad phone number"
    ELSE IF InvalidAmount(input.amount) THEN "bad amount"
    ELSE "valid"

\* request.json() settles in the order route; the body is validated.
ReadOrderBody(s) ==
    /\ handlers[s].pc = "body"
    /\ handlers[s].route = "order"
    /\ \E input \in OrderInputs :
          handlers' = [handlers EXCEPT ![s] =
              Validated([handlers[s] EXCEPT !.input = input,
                                            !.body = OrderBody(input)])]
    /\ UNCHANGED <<now, rateLimitMap, cfg, lastCall, win, solo, env, payload, probes>>

\* One client's POSTs to the order route.
EnterOrder(s) ==
    /\ EnterFrom(s, {"order"}, {"POST"}, {Absent},
                 {[xff |-> Header(<<"1">>), realIp |-> Absent]}, {Absent})
    /\ UNCHANGED <<cfg, lastCall, win, solo, env, payload, probes>>

InitOrder ==
    /\ now = 0
    /\ rateLimitMap = <<>>
    /\ cfg = RouteConfig("order")
    /\ lastCall = NoCall
    /\ win = [k \in ClientKeys |-> NoWindow]
    /\ solo = [k \in ClientKeys |-> <<>>]
    /\ env = DefaultEnv
    /\ handlers = [s \in Slots |-> IdleHandler]
    /\ payload = NoPayload
    /\ probes = <<>>

NextOrder ==
    \/ \E s \in Slots : EnterOrder(s)
    \/ \E s \in Slots : ReadOrderBody(s)
    \/ \E s \in Slots : Sign(s)
    \/ \E s \in Slots : Upstream(s)
    \/ \E s \in Slots : Deliver(s)

SpecOrder == InitOrder /\ [][NextOrder]_vars

(***************************************************************************)
(* Claims about the order route's phone number check, under SpecOrder.     *)
(***************************************************************************)
\* The handler has read a well-formed body whose email and destination
\* address are there, so that what follows depends on the phone number.
PhoneDecides(h) ==
    /\ h.route = "order"
    /\ h.input.read
    /\ h.input.json
    /\ JsTruthy(h.input.email)
    /\ h.input.destinationAddress.kind = "string"
    /\ JsTruthy(h.input.destinationAddress)

\* '+1' followed by exactly ten digits
PlusOneAndTenDigits(v) ==
    /\ v.kind = "string"
    /\ \E rest \in {SubSeq(v.str, 3, Len(v.str))} :
          /\ SubSeq(v.str, 1, 2) = <<"+", "1">>
          /\ Len(rest) = 10
          /\ \A i \in 1 .. 10 : rest[i] \in Digits

PhoneAccepted(h) == h.body \in {"bad amount", "valid"}

ShowsExample(h) ==
    /\ h.pc = "responded"
    /\ h.resp.status = 400
    /\ h.resp.json
    /\ "example" \in DOMAIN h.resp.body
    /\ h.resp.body["example"] = "+12345678901"

NothingSigned(h) == "sign" \notin Events(h) /\ "fetch" \notin Events(h)

\* C12: the order route accepts a phoneNumber exactly when it is '+1'
\* followed by exactly 10 digits; every other value is answered 400 with a
\* body that shows the example '+12345678901', and neither signing nor an
\* outbound call follows.
C12_PhoneAcceptedIffPlusOneTenDigits ==
    \A s \in Slots :
        PhoneDecides(handlers[s]) =>
            /\ PhoneAccepted(handlers[s])
                   <=> PlusOneAndTenDigits(handlers[s].input.phoneNumber)
            /\ ~PlusOneAndTenDigits(handlers[s].input.phoneNumber) =>
                   ShowsExample(handlers[s]) /\ NothingSigned(handlers[s])

\* C13, as stated: '+1234567890' passes the phone number check, it is not
\* answered with the 400 'Invalid phone number format' error.
C13_Original ==
    \A s \in Slots :
        (/\ PhoneDecides(handlers[s])
         /\ handlers[s].input.phoneNumber = Str(<<"+", "1">> \o DigitRun(9))) =>
            handlers[s].body # "bad phone number"

\* C13, amended: '+1234567890', which is '+1' followed by nine digits, is
\* answered with the 400 'Invalid phone number format' error that shows the
\* example '+12345678901', and nothing is signed or sent; '+12345678901'
\* passes the check.
C13_NineDigitsRejected ==
    \A s \in Slots :
        PhoneDecides(handlers[s]) =>
            /\ handlers[s].input.phoneNumber = Str(<<"+", "1">> \o DigitRun(9)) =>
                   /\ ShowsExample(handlers[s])
                   /\ handlers[s].resp.body["error"] =
                          "Invalid phone number format. Must be +1XXXXXXXXXX (US only)"
                   /\ NothingSigned(handlers[s])
            /\ handlers[s].input.phoneNumber = Str(<<"+", "1">> \o DigitRun(10)) =>
                   PhoneAccepted(handlers[s])

\* '+1234567890' has been answered with the 400.
C13_Witness ==
    \E s \in Slots :
        /\ PhoneDecides(handlers[s])
        /\ handlers[s].input.phoneNumber =
               Str(<<"+", "1", "2", "3", "4", "5", "6", "7", "8", "9", "0">>)
        /\ handlers[s].pc = "responded"
        /\ handlers[s].resp.status = 400

(***************************************************************************)
(* The three routes of one server. The fund-session route calls the        *)
(* session route of the host its request names                             *)
(* (fund/session/route.ts:92-127): when that is this server, the session    *)
(* route's POST handler runs for the call, on the same rateLimitMap.        *)
(***************************************************************************)
SiteRoutes == {"session", "order", "fund"}
SiteSlots == {"handler", "internal"}

\* The request of fund/session/route.ts:113-127 reaches this server: the
\* session route's POST handler runs up to its first await or return.
EnterInternal(f, s) ==
    /\ handlers[f].pc = "fetching"
    /\ handlers[f].route = "fund"
    /\ ReachesThisServer(HostOf(handlers[f].host))
    /\ handlers[s].pc = "idle"
    /\ \E later \in LaterReads(now) :
          Arrive(s, "session", "POST", Absent,
                 [client |-> InternalClient,
                  host |-> Header(HostOf(handlers[f].host)),
                  internal |-> TRUE], later)

\* fund/session/route.ts:129-147: the session route's answer reaches the
\* fund-session handler, which relays it.
FundRelay(f, s) ==
    /\ handlers[f].pc = "fetching"
    /\ handlers[f].route = "fund"
    /\ handlers[s].pc = "responded"
    /\ handlers[s].internal
    /\ LET up == [rejected |-> FALSE, status |-> handlers[s].resp.status,
                  parses |-> handlers[s].resp.json]
       IN  handlers' = [handlers EXCEPT
               ![s] = IdleHandler,
               ![f] = Respond([handlers[f] EXCEPT !.up = up],
                              UpstreamResponse("fund", handlers[f].corsHeaders, up))]
    /\ UNCHANGED <<now, rateLimitMap>>

InitSite ==
    /\ now = 0
    /\ rateLimitMap = <<>>
    /\ cfg = RouteConfig("session")
    /\ lastCall = NoCall
    /\ win = [k \in ClientKeys |-> NoWindow]
    /\ solo = [k \in ClientKeys |-> <<>>]
    /\ env \in Envs
    /\ handlers = [s \in SiteSlots |-> IdleHandler]
    /\ payload = NoPayload
    /\ probes = <<>>

\* Requests of one client to the three routes.
EnterSite(s) ==
    /\ EnterFrom(s, SiteRoutes, Methods, Origins,
                 {[xff |-> Header(<<"1">>), realIp |-> Absent]}, Hosts)
    /\ UNCHANGED <<cfg, lastCall, win, solo, env, payload, probes>>

InternalCall ==
    /\ EnterInternal("handler", "internal")
    /\ UNCHANGED <<cfg, lastCall, win, solo, env, payload, probes>>

InternalAnswer ==
    /\ FundRelay("handler", "internal")
    /\ UNCHANGED <<cfg, lastCall, win, solo, env, payload, probes>>

NextSite ==
    \/ EnterSite("handler")
    \/ InternalCall
    \/ InternalAnswer
    \/ \E s \in SiteSlots : ReadBody(s)
    \/ \E s \in SiteSlots : Sign(s)
    \/ \E s \in SiteSlots : Upstream(s)
    \/ Deliver("handler")

SpecSite == InitSite /\ [][NextSite]_vars

(***************************************************************************)
(* Claims about the answers of the three routes, checked under SpecSite.   *)
(***************************************************************************)
Outbound(h) == {i \in 1 .. Len(h.trace) : h.trace[i] = "fetch"}

\* C14: a POST that has passed the origin check and the rate-limit check
\* and whose body is malformed or lacks a required field is answered with a
\* 400, on the session, fund-session and order routes, without any outbound
\* call.
C14_BadBodyAnswered400 ==
    \A s \in SiteSlots :
        (/\ handlers[s].pc = "responded"
         /\ handlers[s].method = "POST"
         /\ handlers[s].limited = "admitted"
         /\ handlers[s].body \in {"malformed", "invalid", "missing field",
                                  "missing address"}) =>
            /\ handlers[s].resp.status = 400
            /\ Outbound(handlers[s]) = {}

\* C15: when the upstream API answers the outbound call with a non-success
\* status, the handler's response carries exactly that status, and the
\* handler has made one outbound call for the request, not two.
C15_UpstreamStatusRelayed ==
    \A s \in SiteSlots :
        (/\ handlers[s].pc = "responded"
         /\ ~handlers[s].up.rejected
         /\ handlers[s].up.status # 0
         /\ handlers[s].up.status \notin 200 .. 299) =>
            /\ handlers[s].resp.status = handlers[s].up.status
            /\ Cardinality(Outbound(handlers[s])) = 1

ErrorAnswer(h) == h.pc = "responded" /\ h.resp.status >= 400

HasErrorField(resp) == resp.json /\ "error" \in DOMAIN resp.body

\* C16, as stated: every error answer of every handler, OPTIONS and POST,
\* has a JSON body with an 'error' field.
C16_Original ==
    \A s \in SiteSlots :
        ErrorAnswer(handlers[s]) => HasErrorField(handlers[s].resp)

\* C16, amended: every error answer of every POST handler (400, 403, 429,
\* 500 and the relayed upstream statuses) has a JSON body with an 'error'
\* field; the 403 of the OPTIONS handlers has no body.
C16_PostErrorsCarryErrorField ==
    \A s \in SiteSlots :
        ErrorAnswer(handlers[s]) =>
            IF handlers[s].method = "POST"
            THEN HasErrorField(handlers[s].resp)
            ELSE handlers[s].resp = EmptyResponse(403, NoHeaders)

\* The fund-session route has relayed the 429 of the session route.
C16_Witness ==
    /\ handlers["handler"].route = "fund"
    /\ handlers["handler"].pc = "responded"
    /\ handlers["handler"].up.status = 429
    /\ handlers["handler"].resp.status = 429
    /\ HasErrorField(handlers["handler"].resp)

(***************************************************************************)
(* One client's POSTs to the session and fund-session routes of one        *)
(* server, within one minute. History: beside the module's table, each      *)
(* route's calls of rateLimit are replayed on a table no other route        *)
(* touches, and the client's POSTs are counted.                             *)
(***************************************************************************)
MaxPosts == 22      \* the most POSTs the client makes

SharedClient == [xff |-> Header(<<"1">>), realIp |-> Absent]

NoCheck == [made |-> FALSE, route |-> "session", internal |-> FALSE,
            result |-> NoResult, alone |-> NoResult]

InitShared ==
    /\ now = 0
    /\ rateLimitMap = <<>>
    /\ cfg = RouteConfig("session")
    /\ lastCall = NoCheck
    /\ win = [route \in SiteRoutes |-> 0]
    /\ solo = [route \in SiteRoutes |-> <<>>]
    /\ env = DefaultEnv
    /\ handlers = [s \in SiteSlots |-> IdleHandler]
    /\ payload = NoPayload
    /\ probes = <<>>

\* The history kept when the handler that has just entered slot s called
\* rateLimit (rateLimit.ts:34-73, called with the route's own config).
Recorded(s) ==
    LET h == handlers'[s]
        out == rateLimit(rateLimitMap, h.client, RouteConfig(h.route), now)
        alone == rateLimit(solo[h.route], h.client, RouteConfig(h.route), now)
    IN  /\ solo' = [solo EXCEPT ![h.route] = alone.map]
        /\ lastCall' = [made |-> TRUE, route |-> h.route,
                        internal |-> h.internal,
                        result |-> out.result, alone |-> alone.result]
        /\ win' = IF h.internal THEN win
                  ELSE [win EXCEPT ![h.route] = @ + 1]

EnterShared(s) ==
    /\ win["session"] + win["fund"] < MaxPosts
    /\ EnterFrom(s, {"session", "fund"}, {"POST"}, {Absent}, {SharedClient},
                 {Absent})
    /\ Recorded(s)
    /\ UNCHANGED <<cfg, env, payload, probes>>

InternalCallShared ==
    /\ EnterInternal("handler", "internal")
    /\ Recorded("internal")
    /\ UNCHANGED <<cfg, env, payload, probes>>

NextShared ==
    \/ EnterShared("handler")
    \/ InternalCallShared
    \/ InternalAnswer
    \/ \E s \in SiteSlots : ReadBody(s)
    \/ \E s \in SiteSlots : Sign(s)
    \/ \E s \in SiteSlots : Upstream(s)
    \/ Deliver("handler")

SpecShared == InitShared /\ [][NextShared]_vars

\* C17: rate limits are independent per endpoint: the requests the client
\* made to the other route change nothing about whether a request is
\* admitted; each check admits or rejects as the same check does on a table
\* that only this route's requests have touched.
C17_LimitsIndependentPerRoute ==
    lastCall.made => lastCall.result.success = lastCall.alone.success

\* C18: a client that POSTs only to the fund-session route is answered 429
\* exactly from its 21st POST of the minute on, the session route's own
\* rate-limit check of the internal call included.
C18_FundAdmitsTwentyPerMinute ==
    (/\ handlers["handler"].pc = "responded"
     /\ handlers["handler"].route = "fund"
     /\ win["session"] = 0) =>
        (handlers["handler"].resp.status = 429 <=> win["fund"] > FundLimit)

(***************************************************************************)
(* The client key of rateLimit (rateLimit.ts:37-45), on requests whose      *)
(* x-forwarded-for header is any short string of blanks, commas and a      *)
(* digit.                                                                   *)
(***************************************************************************)
MaxHeaderLen == 2   \* the longest x-forwarded-for value
MaxProbes == 2      \* the most calls of rateLimit

HeaderValues ==
    UNION {[1 .. n -> {" ", ",", "1"}] : n \in 0 .. MaxHeaderLen}

\* Every forwarded value without and with an x-real-ip; an empty x-real-ip
\* with the forwarded values that name no client: none, '' and ' '.
KeyRequests ==
    [ xff : {Absent} \cup {Header(v) : v \in HeaderValues},
      realIp : {Absent, Header(<<"2">>)} ]
        \cup [ xff : {Absent, Header(<<>>), Header(<<" ">>)},
               realIp : {Header(<<>>)} ]

InitKey ==
    /\ now = 0
    /\ rateLimitMap = <<>>
    /\ cfg = RouteConfig("session")
    /\ lastCall = NoCall
    /\ win = [k \in ClientKeys |-> NoWindow]
    /\ solo = [k \in ClientKeys |-> <<>>]
    /\ env = DefaultEnv
    /\ handlers = [s \in Slots |-> IdleHandler]
    /\ payload = NoPayload
    /\ probes = <<>>

\* One call of rateLimit(request, cfg); the request is remembered.
KeyedCall ==
    /\ Len(probes) < MaxProbes
    /\ \E request \in KeyRequests :
          /\ rateLimitMap' = rateLimit(rateLimitMap, request, cfg, now).map
          /\ probes' = Append(probes, request)
    /\ UNCHANGED <<now, cfg, lastCall, win, solo, env, handlers, payload>>

\* The process starts anew: the table is empty again.
Restart ==
    /\ probes # <<>>
    /\ rateLimitMap' = <<>>
    /\ probes' = <<>>
    /\ UNCHANGED <<now, cfg, lastCall, win, solo, env, handlers, payload>>

NextKey == KeyedCall \/ Restart

SpecKey == InitKey /\ [][NextKey]_vars

\* The first comma-separated entry of a header value: what stands before
\* its first comma, or all of it.
FirstEntry(v) ==
    CHOOSE e \in {SubSeq(v, 1, n) : n \in 0 .. Len(v)} :
        /\ \A i \in 1 .. Len(e) : e[i] # ","
        /\ Len(e) = Len(v) \/ v[Len(e) + 1] = ","

\* An entry without the blanks around it.
Trimmed(e) ==
    LET solid == {i \in 1 .. Len(e) : e[i] # " "}
    IN  IF solid = {} THEN <<>>
        ELSE SubSeq(e, CHOOSE i \in solid : \A j \in solid : i <= j,
                       CHOOSE i \in solid : \A j \in solid : i >= j)

\* The key as the claim states it.
KeyAsStated(request) ==
    IF request.xff.present /\ Trimmed(FirstEntry(request.xff.value)) # <<>>
    THEN Trimmed(FirstEntry(request.xff.value))
    ELSE IF request.realIp.present /\ request.realIp.value # <<>>
    THEN request.realIp.value
    ELSE Anonymous

\* C19: rateLimit files each request under the trimmed first
\* comma-separated entry of x-forwarded-for when that is non-empty,
\* otherwise under x-real-ip when that is non-empty, otherwise under
\* 'anonymous': the table holds exactly these keys, each with the count of
\* the requests made under it, and requests that carry neither header share
\* the one window of 'anonymous'.
C19_KeyIsForwardedThenRealIpThenAnonymous ==
    LET made == 1 .. Len(probes)
    IN  /\ DOMAIN rateLimitMap = {KeyAsStated(probes[i]) : i \in made}
        /\ \A k \in DOMAIN rateLimitMap :
               rateLimitMap[k].count =
                   Cardinality({i \in made : KeyAsStated(probes[i]) = k})
        /\ (\A i \in made : ~probes[i].xff.present /\ ~probes[i].realIp.present)
               => DOMAIN rateLimitMap \subseteq {Anonymous}

\* Two requests with x-real-ip: 2, one whose forwarded header is ' 1' and
\* one whose first forwarded entry is a blank.
C19_Witness ==
    /\ probes = << [xff |-> Header(<<" ", "1">>), realIp |-> Header(<<"2">>)],
                   [xff |-> Header(<<" ", ",">>), realIp |-> Header(<<"2">>)] >>
    /\ DOMAIN rateLimitMap = {<<"1">>, <<"2">>}

(***************************************************************************)
(* Several handlers of the session route in flight at once. A handler      *)
(* runs from one await to the next without interruption, and another        *)
(* handler's stretch may run while it waits; rateLimit                      *)
(* (rateLimit.ts:34-73) has no await, so each call of it lies within one    *)
(* stretch. History: per window of the client key, the requests that        *)
(* passed the check.                                                        *)
(***************************************************************************)
MaxInFlight == 2    \* the most handlers in flight at once

ConcurrentSlots == 1 .. MaxInFlight

NoPasses == [open |-> FALSE, resetTime |-> 0, passes |-> 0]

InitConcurrent ==
    /\ now = 0
    /\ rateLimitMap = <<>>
    /\ cfg = RouteConfig("session")
    /\ lastCall = NoCall
    /\ win = [k \in {ClientKey(SharedClient)} |-> NoPasses]
    /\ solo = [k \in ClientKeys |-> <<>>]
    /\ env = DefaultEnv
    /\ handlers = [s \in ConcurrentSlots |-> IdleHandler]
    /\ payload = NoPayload
    /\ probes = <<>>

\* The history kept when the handler that has just entered slot s called
\* rateLimit: a call made after the window's reset time opens a new window.
Counted(s) ==
    LET h == handlers'[s]
        key == ClientKey(h.client)
        w == IF WindowOver(win[key], now)
             THEN [open |-> TRUE, passes |-> 0,
                   resetTime |-> now + RouteConfig(h.route).windowMs]
             ELSE win[key]
    IN  win' = [win EXCEPT ![key] =
                   IF h.limited = "admitted"
                   THEN [w EXCEPT !.passes = @ + 1]
                   ELSE w]

\* One client's POSTs to the session route.
EnterConcurrent(s) ==
    /\ EnterFrom(s, {"session"}, {"POST"}, {Absent}, {SharedClient}, {Absent})
    /\ Counted(s)
    /\ UNCHANGED <<cfg, lastCall, solo, env, payload, probes>>

NextConcurrent ==
    \/ TickRoutes
    \/ Sweep
    \/ \E s \in ConcurrentSlots : EnterConcurrent(s)
    \/ \E s \in ConcurrentSlots : ReadBody(s)
    \/ \E s \in ConcurrentSlots : Sign(s)
    \/ \E s \in ConcurrentSlots : Upstream(s)
    \/ \E s \in ConcurrentSlots : Deliver(s)

SpecConcurrent == InitConcurrent /\ [][NextConcurrent]_vars

\* C20: with handlers in flight at once that interleave at their awaits,
\* no update of a window is lost: while a window is stored, its count is
\* the number of requests of the key that passed the check in it, and the
\* requests that pass within one window never exceed the limit.
C20_PassesWithinLimit ==
    \A k \in DOMAIN win :
        /\ win[k].passes <= SessionLimit
        /\ (MapHas(rateLimitMap, k) /\ ~WindowOver(win[k], now)) =>
               /\ rateLimitMap[k].resetTime = win[k].resetTime
               /\ rateLimitMap[k].count = win[k].passes

\* The limit is used up in the key's second window while one admitted
\* handler waits for its body and another has just been rejected.
C20_Witness ==
    /\ win[ClientKey(SharedClient)].passes = SessionLimit
    /\ win[ClientKey(SharedClient)].resetTime > RouteWindowMs
    /\ \E s, t \in ConcurrentSlots :
           /\ handlers[s].pc = "body"
           /\ handlers[s].limited = "admitted"
           /\ handlers[t].pc = "responded"
           /\ handlers[t].limited = "rejected"

(***************************************************************************)
(* The rejecting branch and the sweep of rateLimit.ts, under Spec.          *)
(***************************************************************************)
\* A step of Spec that is one rateLimit call: only a call changes the
\* windows the callers have seen.
IsCallStep == win' # win

\* C21: a rejected rateLimit call leaves the whole table as it was (no count
\* or resetTime modified, no entry added or removed), and its result reports
\* remaining = 0 and the resetTime of the window it found stored.
C21_RejectionLeavesTableUnchanged ==
    [][(IsCallStep /\ ~lastCall'.result.success) =>
           /\ rateLimitMap' = rateLimitMap
           /\ lastCall'.had
           /\ lastCall'.result.remaining = 0
           /\ lastCall'.result.resetTime = lastCall'.before.resetTime]_vars

\* A call rejected some time after the window's first rejection, while
\* another key holds a window too.
C21_Witness ==
    /\ lastCall.made
    /\ ~lastCall.result.success
    /\ win[lastCall.ip].rejected >= 2
    /\ lastCall.at > lastCall.before.resetTime - cfg.windowMs
    /\ \E k \in ClientKeys \ {lastCall.ip} : MapHas(rateLimitMap, k)

\* A step of Spec that is one run of the sweep: the table changes and no
\* caller has made a call.
IsSweepStep == rateLimitMap' # rateLimitMap /\ win' = win

\* C22: a sweep run at time now deletes every stored window whose resetTime
\* has passed and no other: afterwards no entry with resetTime < now is
\* left, no entry has appeared, and every entry that has not expired is
\* still there with its count and resetTime as they were.
C22_SweepDeletesExactlyExpired ==
    [][IsSweepStep =>
           /\ \A k \in DOMAIN rateLimitMap' : ~(rateLimitMap'[k].resetTime < now)
           /\ DOMAIN rateLimitMap' \subseteq DOMAIN rateLimitMap
           /\ \A k \in DOMAIN rateLimitMap :
                  ~(now > rateLimitMap[k].resetTime) =>
                      /\ k \in DOMAIN rateLimitMap'
                      /\ rateLimitMap'[k] = rateLimitMap[k]]_vars

\* After a sweep: one key's window, seen by its caller, is over and gone
\* from the table, while another key's window that resets at this very
\* instant is still stored.
C22_Witness ==
    \E k, j \in ClientKeys :
        /\ k # j
        /\ win[k].open /\ now > win[k].resetTime /\ ~MapHas(rateLimitMap, k)
        /\ MapHas(rateLimitMap, j) /\ MapGet(rateLimitMap, j).resetTime = now

(***************************************************************************)
(* The sweep seen from the callers: the module's table next to a table      *)
(* that receives the same calls at the same times and is never swept.       *)
(* Here probes holds that second table and lastCall the two results of      *)
(* the latest call.                                                         *)
(***************************************************************************)
InitSweep ==
    /\ now = 0
    /\ rateLimitMap = <<>>
    /\ cfg \in [limit : Limits, windowMs : WindowDurations]
    /\ lastCall = [made |-> FALSE, ip |-> <<>>, result |-> NoResult,
                   unswept |-> NoResult, sweptBefore |-> FALSE]
    /\ win = [k \in ClientKeys |-> NoWindow]
    /\ solo = [k \in ClientKeys |-> <<>>]
    /\ env = DefaultEnv
    /\ handlers = [s \in Slots |-> IdleHandler]
    /\ payload = NoPayload
    /\ probes = <<>>

\* One call of rateLimit(request, cfg), made on both tables.
SweptCall ==
    \E request \in RateLimitRequests :
        LET ip == ClientKey(request)
            out == rateLimit(rateLimitMap, request, cfg, now)
            twin == rateLimit(probes, request, cfg, now)
        IN  /\ rateLimitMap' = out.map
            /\ probes' = twin.map
            /\ lastCall' = [made |-> TRUE, ip |-> ip,
                            result |-> out.result,
                            unswept |-> twin.result,
                            sweptBefore |-> /\ MapHas(probes, ip)
                                            /\ ~MapHas(rateLimitMap, ip)]
            /\ UNCHANGED <<now, cfg, win, solo, env, payload, handlers>>

NextSweep == Tick \/ SweptCall \/ Sweep

SpecSweep == InitSweep /\ [][NextSweep]_vars

\* C23: wherever sweeps fall between the calls, each call returns the same
\* success, remaining and resetTime as the same call in the same sequence
\* of calls made with no sweep at all.
C23_SweepInvisibleToCallers ==
    lastCall.made => lastCall.result = lastCall.unswept

\* A call for a key whose window the sweep had deleted, and which the
\* never-swept table still holds, made while the module's table holds a
\* full window of another key.
C23_Witness ==
    /\ lastCall.made
    /\ lastCall.sweptBefore
    /\ \E k \in ClientKeys \ {lastCall.ip} :
           /\ MapHas(rateLimitMap, k)
           /\ LimitExceeded(MapGet(rateLimitMap, k), cfg)

(***************************************************************************)
(* Quota consumption by the session and order handlers, under SpecRoutes.   *)
(***************************************************************************)
\* The count a call at time t finds under key k: that of the stored record
\* while its window lasts, none otherwise.
LiveCount(m, k, t) ==
    IF MapHas(m, k) /\ ~WindowExpired(MapGet(m, k), t)
    THEN MapGet(m, k).count ELSE 0

\* A step in which the handler takes a request and runs up to its first
\* await or return.
Arrives(s) == handlers[s].pc = "idle" /\ handlers'[s].pc # "idle"

\* C24: a POST that passes the origin check and is admitted adds one to the
\* count of its client's window, and nothing the handler does afterwards
\* (the 400 of an invalid body, the 500 of missing credentials or of a
\* failed signing) gives the unit back; a POST answered 403 for its origin
\* and every OPTIONS request leave the table as it was.
C24_AdmittedPostConsumesOneUnit ==
    [][\A s \in Slots :
          LET h == handlers'[s]
              k == ClientKey(h.client)
          IN  /\ (Arrives(s) /\ h.method = "OPTIONS") =>
                     rateLimitMap' = rateLimitMap
              /\ (Arrives(s) /\ h.method = "POST" /\ h.pc = "responded"
                             /\ h.resp.status = 403) =>
                     rateLimitMap' = rateLimitMap
              /\ (Arrives(s) /\ h.limited = "admitted") =>
                     /\ MapHas(rateLimitMap', k)
                     /\ MapGet(rateLimitMap', k).count
                            = LiveCount(rateLimitMap, k, now) + 1
              /\ (handlers[s].pc # "idle" /\ h # handlers[s]) =>
                     rateLimitMap' = rateLimitMap]_vars

\* An admitted POST that has used the last unit of its client's window and
\* was then answered 500 because signing failed.
C24_Witness ==
    \E s \in Slots :
        LET h == handlers[s]
        IN  /\ h.pc = "responded" /\ h.method = "POST"
            /\ h.limited = "admitted"
            /\ h.sign.called /\ h.sign.threw /\ h.resp.status = 500
            /\ MapHas(rateLimitMap, ClientKey(h.client))
            /\ MapGet(rateLimitMap, ClientKey(h.client)).count = SessionLimit

(***************************************************************************)
(* The Retry-After value of the session and fund-session routes. Between    *)
(* rateLimit's Date.now() (rateLimit.ts:43) and the handler's own           *)
(* (session/route.ts:76, fund/session/route.ts:62) the process may be held  *)
(* up for any length of time; here for up to MaxStallMs.                    *)
(***************************************************************************)
MaxStallMs == 1000

RetryRoutes == {"session", "fund"}

\* The instants the clock is read at: those of the routes' clock and those
\* a full stall after them.
RetryTimes == RouteTimes \cup {t + MaxStallMs : t \in RouteTimes}

\* The clock's later readings within one synchronous stretch that may stall.
StalledReads(t) == {u \in RetryTimes : u >= t /\ u - t <= MaxStallMs}

InitRetry ==
    /\ now = 0
    /\ rateLimitMap = <<>>
    /\ cfg = RouteConfig("session")
    /\ lastCall = NoCall
    /\ win = [k \in ClientKeys |-> NoWindow]
    /\ solo = [k \in ClientKeys |-> <<>>]
    /\ env \in Envs
    /\ handlers = [s \in Slots |-> IdleHandler]
    /\ payload = NoPayload
    /\ probes = <<>>

\* POSTs of one client to the two routes, forwarded by the production host.
EnterStalled(s) ==
    /\ handlers[s].pc = "idle"
    /\ \E route \in RetryRoutes,
          origin \in {Absent, Header("http://localhost:3000")},
          later \in StalledReads(now) :
          Arrive(s, route, "POST", origin,
                 [client |-> [xff |-> Header(<<"1">>), realIp |-> Absent],
                  host |-> Header(<<"www.onrampdemo.com">>),
                  internal |-> FALSE],
                 later)
    /\ UNCHANGED <<cfg, lastCall, win, solo, env, payload, probes>>

NextRetry ==
    \/ TickRoutes
    \/ Sweep
    \/ \E s \in Slots : EnterStalled(s)
    \/ \E s \in Slots : ReadBody(s)
    \/ \E s \in Slots : Sign(s)
    \/ \E s \in Slots : Upstream(s)
    \/ \E s \in Slots : Deliver(s)

SpecRetry == InitRetry /\ [][NextRetry]_vars

MaxRetryAfterSeconds == 60

\* C25: in every 429 response of the session and fund-session routes the
\* Retry-After header and the retryAfter body field hold a number of
\* seconds from 0 to 60, however long after the rate-limit check the
\* handler reads the clock.
C25_RetryAfterWithinZeroToSixty ==
    \A s \in Slots :
        LET h == handlers[s]
        IN  (h.pc = "responded" /\ h.route \in RetryRoutes
                 /\ h.resp.status = 429) =>
                /\ h.resp.headers["Retry-After"] \in 0 .. MaxRetryAfterSeconds
                /\ h.resp.body["retryAfter"] \in 0 .. MaxRetryAfterSeconds

(***************************************************************************)
(* The CORS headers of the three routes' responses, under SpecSite.         *)
(***************************************************************************)
CorsHeaderNames == DOMAIN CorsHeadersFor("")

\* C26: on every response path of the session, fund-session and order
\* handlers a response carries Access-Control-Allow-Origin only if the
\* request had an Origin header that is in the allow-list, and the value is
\* that Origin; a POST without an Origin header gets past the origin check
\* and is answered without CORS headers, and an OPTIONS without an Origin
\* header is answered 403.
C26_AllowOriginOnlyEchoesAllowedOrigin ==
    \A s \in SiteSlots :
        LET h == handlers[s]
            headers == h.resp.headers
        IN  h.pc = "responded" =>
                /\ "Access-Control-Allow-Origin" \in DOMAIN headers =>
                       /\ h.origin.present
                       /\ h.origin.value \in ALLOWED_ORIGINS(env, h.route)
                       /\ headers["Access-Control-Allow-Origin"] = h.origin.value
                /\ (h.method = "POST" /\ ~h.origin.present) =>
                       /\ h.limited # "unchecked"
                       /\ DOMAIN headers \cap CorsHeaderNames = {}
                /\ (h.method = "OPTIONS" /\ ~h.origin.present) =>
                       h.resp.status = 403

\* A fund-session POST from an allowed origin, answered with the upstream's
\* error status relayed and the origin echoed, on a deployment whose
\* allow-list comes from the environment.
C26_Witness ==
    /\ env.allowedOrigins.present
    /\ LET h == handlers["handler"]
       IN  /\ h.pc = "responded" /\ h.route = "fund" /\ h.method = "POST"
           /\ h.origin = Header("http://localhost:3000")
           /\ h.resp.status = 401
           /\ "Access-Control-Allow-Origin" \in DOMAIN h.resp.headers
           /\ h.resp.headers["Access-Control-Allow-Origin"] = "http://localhost:3000"

(***************************************************************************)
(* The target of the fund-session route's fetch, under SpecSite.            *)
(***************************************************************************)
\* C27: the fund-session route calls fetch only when the host it builds the
\* URL from is one of the four trusted hosts: for a request with any other
\* Host value no fetch is made, so the fetch target is always a trusted
\* host.
C27_FetchTargetIsTrustedHost ==
    \A s \in SiteSlots :
        LET h == handlers[s]
        IN  (h.route = "fund" /\ h.method = "POST" /\ Outbound(h) # {}) =>
                HostOf(h.host) \in TrustedHosts

(***************************************************************************)
(* formatPrivateKey, sessionTokenApi.ts:25-44. A string is the sequence of  *)
(* its characters; the marker 'BEGIN EC PRIVATE KEY' and the five dashes    *)
(* around it are single elements, which no regular expression or trim here  *)
(* looks into.                                                              *)
(***************************************************************************)
LineWidth == 64
MaxKeyPieces == 3

Marker == "BEGIN EC PRIVATE KEY"
PemHeader == <<"-----", Marker, "-----">>
PemFooter == <<"-----", "END EC PRIVATE KEY", "-----">>

\* The longest run of characters other than line terminators at the start
\* of s, up to max characters: what .{1,max} matches there.
DotRun(s, max) ==
    LET stops == {i \in 1 .. Len(s) : s[i] \in LineTerminators}
        free == IF stops = {} THEN Len(s)
                ELSE (CHOOSE i \in stops : \A j \in stops : i <= j) - 1
    IN  IF free < max THEN free ELSE max

\* keySecret.match(/.{1,64}/g) || []: the successive matches, left to right;
\* '.' matches no line terminator
RECURSIVE MatchAll(_, _)
MatchAll(s, max) ==
    IF s = <<>> THEN <<>>
    ELSE IF DotRun(s, max) = 0 THEN MatchAll(Tail(s), max)
    ELSE <<SubSeq(s, 1, DotRun(s, max))>>
             \o MatchAll(SubSeq(s, DotRun(s, max) + 1, Len(s)), max)

\* Array.prototype.join
RECURSIVE Join(_, _)
Join(lines, sep) ==
    IF lines = <<>> THEN <<>>
    ELSE IF Len(lines) = 1 THEN lines[1]
    ELSE lines[1] \o <<sep>> \o Join(Tail(lines), sep)

formatPrivateKey(keySecret) ==
    LET trimmed == Trim(keySecret)
    IN  IF Includes(trimmed, <<Marker>>) THEN trimmed
        ELSE Join(<<PemHeader>> \o MatchAll(trimmed, LineWidth) \o <<PemFooter>>,
                  "\n")

\* Base64 content of n characters.
Base64Run(n) == [i \in 1 .. n |-> IF i % 3 = 1 THEN "A"
                                  ELSE IF i % 3 = 2 THEN "b" ELSE "9"]

\* What key material is put together from: base64 content of less than a
\* line, of a line less one character, a line, a line and one character and
\* two lines and one character, a blank, a line break, and the marker
\* between its dashes.
KeyPieces ==
    {Base64Run(n) : n \in {1, LineWidth - 1, LineWidth, LineWidth + 1,
                           2 * LineWidth + 1}}
        \cup {<<" ">>, <<"\n">>, PemHeader}

RECURSIVE Concat(_)
Concat(pieces) ==
    IF pieces = <<>> THEN <<>> ELSE Head(pieces) \o Concat(Tail(pieces))

KeyMaterials ==
    UNION {{Concat(ps) : ps \in [1 .. n -> KeyPieces]} : n \in 0 .. MaxKeyPieces}

InitPem ==
    /\ now = 0
    /\ rateLimitMap = <<>>
    /\ cfg = RouteConfig("session")
    /\ lastCall = NoCall
    /\ win = [k \in ClientKeys |-> NoWindow]
    /\ solo = [k \in ClientKeys |-> <<>>]
    /\ env = DefaultEnv
    /\ handlers = [s \in Slots |-> IdleHandler]
    /\ payload = NoPayload
    /\ probes = [called |-> FALSE, keySecret |-> <<>>, returned |-> <<>>]

\* One call of formatPrivateKey(keySecret).
FormatPrivateKey ==
    /\ \E keySecret \in KeyMaterials :
          probes' = [called |-> TRUE, keySecret |-> keySecret,
                     returned |-> formatPrivateKey(keySecret)]
    /\ UNCHANGED <<now, rateLimitMap, cfg, lastCall, win, solo, env, payload, handlers>>

NextPem == FormatPrivateKey

SpecPem == InitPem /\ [][NextPem]_vars

\* The lines of a text: String.prototype.split('\n').
RECURSIVE Lines(_)
Lines(s) ==
    LET breaks == {i \in 1 .. Len(s) : s[i] = "\n"}
        first == CHOOSE i \in breaks : \A j \in breaks : i <= j
    IN  IF breaks = {} THEN <<s>>
        ELSE <<SubSeq(s, 1, first - 1)>> \o Lines(SubSeq(s, first + 1, Len(s)))

\* C28: for key material without the PEM marker formatPrivateKey returns
\* the header line, then the trimmed content in body lines of which every
\* one but possibly the last has exactly 64 characters and which
\* concatenated give the trimmed content, then the footer line; key
\* material with the marker is returned as it is (trimmed).
C28_RewrapsContentAt64 ==
    probes.called =>
        LET content == Trim(probes.keySecret)
            lines == Lines(probes.returned)
            body == SubSeq(lines, 2, Len(lines) - 1)
        IN  IF Includes(content, <<Marker>>)
            THEN probes.returned = content
            ELSE /\ Len(lines) >= 2
                 /\ lines[1] = PemHeader
                 /\ lines[Len(lines)] = PemFooter
                 /\ \A i \in 1 .. Len(body) - 1 : Len(body[i]) = LineWidth
                 /\ \A i \in 1 .. Len(body) : Len(body[i]) \in 1 .. LineWidth
                 /\ Concat(body) = content

(***************************************************************************)
(* What the signing path of the session route writes to the console:        *)
(* generateJWT (sessionTokenApi.ts:74-92) and the handler's try/catch       *)
(* around it (session/route.ts:177-191), with the Logger class              *)
(* (utils/logger.ts). Here probes is the sequence of console writes.        *)
(***************************************************************************)
RedactFrom == 32
MaxLogEntries == 6

\* [a-zA-Z0-9_-]
WordChars == {"A", "b", "9", "_", "-"}
Redacted == <<"***REDACTED***">>

\* Values handed to the logger: undefined, strings, and objects with their
\* enumerable fields; an Error's message is a property for...in skips.
UndefinedValue == [type |-> "undefined"]
StringValue(text) == [type |-> "string", text |-> text]
ObjectValue(fields) == [type |-> "object", fields |-> fields, message |-> <<>>]
ErrorValue(message, fields) ==
    [type |-> "object", fields |-> fields, message |-> message]

\* The length of the run of word characters s starts with.
WordRun(s) ==
    LET stops == {i \in 1 .. Len(s) : s[i] \notin WordChars}
    IN  IF stops = {} THEN Len(s)
        ELSE (CHOOSE i \in stops : \A j \in stops : i <= j) - 1

\* data.replace(/([a-zA-Z0-9_-]{32,})/g, '***REDACTED***')
RECURSIVE Redact(_)
Redact(s) ==
    IF s = <<>> THEN <<>>
    ELSE IF WordRun(s) = 0 THEN <<Head(s)>> \o Redact(Tail(s))
    ELSE (IF WordRun(s) >= RedactFrom THEN Redacted
          ELSE SubSeq(s, 1, WordRun(s)))
             \o Redact(SubSeq(s, WordRun(s) + 1, Len(s)))

\* /key|secret|token|password|credential|auth|private/i.test(key), for
\* field names that are one of the alternatives or hold none of them
SensitiveKey(key) ==
    key \in {"key", "secret", "token", "password", "credential", "auth", "private"}

\* Logger.sanitize
RECURSIVE sanitize(_)
sanitize(data) ==
    IF data.type = "string" THEN StringValue(Redact(data.text))
    ELSE IF data.type = "object"
    THEN ObjectValue([key \in DOMAIN data.fields |->
                         IF SensitiveKey(key) THEN StringValue(Redacted)
                         ELSE sanitize(data.fields[key])])
    ELSE data

\* A write to the console: the method, the message and the data argument.
ConsoleWrite(method, message, data) ==
    [method |-> method, message |-> message, data |-> data]

\* Logger.log: nothing is written for 'debug' outside development; the data
\* goes through sanitize, and '' is written when there is none.
LoggerWrites(isDevelopment, level, message, data) ==
    IF ~isDevelopment /\ level = "debug" THEN <<>>
    ELSE <<ConsoleWrite(IF level = "error" THEN "console.error"
                        ELSE IF level = "warn" THEN "console.warn"
                        ELSE IF level = "info" THEN "console.info"
                        ELSE "console.log",
                        message,
                        IF data.type = "undefined" THEN StringValue(<<>>)
                        ELSE sanitize(data))>>

\* A key secret of RedactFrom characters, and what createPrivateKey and
\* jwt.sign may throw: an error whose message quotes the key material or
\* does not, with or without an enumerable code.
KeySecret == [i \in 1 .. RedactFrom |-> "A"]
ThrownErrors ==
    { ErrorValue(message, fields) :
          message \in { <<"b", "A", "b", " ">> \o KeySecret,
                        <<"b", "A", "b", " ">> \o Tail(KeySecret) },
          fields \in { <<>>, "code" :> StringValue(<<"b", "_", "9">>) } }

InitLog ==
    /\ now = 0
    /\ rateLimitMap = <<>>
    /\ cfg \in [isDevelopment : BOOLEAN]
    /\ lastCall = NoCall
    /\ win = [k \in ClientKeys |-> NoWindow]
    /\ solo = [k \in ClientKeys |-> <<>>]
    /\ env = DefaultEnv
    /\ handlers = [s \in Slots |-> IdleHandler]
    /\ payload = NoPayload
    /\ probes = <<>>

\* sessionTokenApi.ts:74-92: what generateJWT writes when its try block
\* succeeds, and when it throws parseError into the catch block
generateJWT_writes(parseAndSignOk, parseError) ==
    <<ConsoleWrite("console.log", "Attempting to parse private key...",
                   UndefinedValue)>>
        \o (IF parseAndSignOk THEN <<>>
            ELSE <<ConsoleWrite("console.error", "Error parsing private key:",
                                parseError)>>)

\* session/route.ts:177-191 with the generateJWT call inside: the writes of
\* one signing attempt of the session handler.
SignAndLog ==
    /\ \E first \in BOOLEAN, fallback \in BOOLEAN,
          parseError \in ThrownErrors, signError \in ThrownErrors :
          LET jwt == generateJWT(first, fallback)
              writes == generateJWT_writes(first, parseError)
                            \o (IF jwt.threw
                                THEN LoggerWrites(cfg.isDevelopment, "error",
                                                  "JWT generation failed",
                                                  ObjectValue("error" :> signError))
                                ELSE LoggerWrites(cfg.isDevelopment, "debug",
                                                  "JWT generated successfully",
                                                  UndefinedValue))
          IN  /\ Len(probes) + Len(writes) <= MaxLogEntries
              /\ probes' = probes \o writes
    /\ UNCHANGED <<now, rateLimitMap, cfg, lastCall, win, solo, env, payload, handlers>>

NextLog == SignAndLog

SpecLog == InitLog /\ [][NextLog]_vars

\* C29: every diagnostic the signing path writes on a key-parse or signing
\* failure has passed through the logger's redaction: the data it writes is
\* the output of Logger.sanitize, in generateJWT as in the route handler.
C29_FailureDiagnosticsAreSanitized ==
    \A i \in 1 .. Len(probes) :
        probes[i].method = "console.error" =>
            probes[i].data = sanitize(probes[i].data)

(***************************************************************************)
(* The partner user id of CryptoRamp and CryptoRampWrapper: the effect of   *)
(* components/CryptoRamp.tsx:50-66 and CryptoRampWrapper.tsx:29-45, which   *)
(* are the same statement for statement. Here probes holds the browser's    *)
(* localStorage item 'cb_ramp_user_id', the partnerUserId of the context    *)
(* and the latest mount.                                                    *)
(***************************************************************************)
\* What crypto.randomUUID() may return.
UUIDs == {"uuid-1", "uuid-2", "uuid-3"}

RampComponents == {"CryptoRamp", "CryptoRampWrapper"}

\* The partnerUserId prop: not passed, empty, or a partner's id.
NoProp == [present |-> FALSE, value |-> ""]
PartnerUserIdProps == {NoProp, Header(""), Header("partner-1")}

\* localStorage.getItem: null when the item is not stored
NoItem == [present |-> FALSE, value |-> ""]

NoMount == [component |-> "none", prop |-> NoProp, storedBefore |-> NoItem,
            sets |-> <<>>]

InitRamp ==
    /\ now = 0
    /\ rateLimitMap = <<>>
    /\ cfg = RouteConfig("session")
    /\ lastCall = NoCall
    /\ win = [k \in ClientKeys |-> NoWindow]
    /\ solo = [k \in ClientKeys |-> <<>>]
    /\ env = DefaultEnv
    /\ handlers = [s \in Slots |-> IdleHandler]
    /\ payload = NoPayload
    /\ probes = [item |-> NoItem, partnerUserId |-> "", mount |-> NoMount]

\* The effect body: the item stored afterwards and the setPartnerUserId
\* calls in order, given the two values crypto.randomUUID() would return.
PartnerIdEffect(prop, item, uuid1, uuid2) ==
    IF Truthy(prop)
    THEN [item |-> item, sets |-> <<prop.value>>]
    ELSE IF Truthy(item)
    THEN [item |-> item, sets |-> <<item.value, uuid2>>]
    ELSE [item |-> Header(uuid1), sets |-> <<uuid1, uuid2>>]

\* A component mounts and its effect runs; the context then holds the
\* value of the last setPartnerUserId call.
Mount ==
    /\ \E component \in RampComponents, prop \in PartnerUserIdProps,
          uuid1 \in UUIDs, uuid2 \in UUIDs :
          LET ran == PartnerIdEffect(prop, probes.item, uuid1, uuid2)
          IN  probes' = [item |-> ran.item,
                         partnerUserId |-> ran.sets[Len(ran.sets)],
                         mount |-> [component |-> component, prop |-> prop,
                                    storedBefore |-> probes.item,
                                    sets |-> ran.sets]]
    /\ UNCHANGED <<now, rateLimitMap, cfg, lastCall, win, solo, env, payload, handlers>>

\* The user clears the site's data in the browser.
ClearSiteData ==
    /\ probes.item.present
    /\ probes' = [probes EXCEPT !.item = NoItem]
    /\ UNCHANGED <<now, rateLimitMap, cfg, lastCall, win, solo, env, payload, handlers>>

NextRamp == Mount \/ ClearSiteData

SpecRamp == InitRamp /\ [][NextRamp]_vars

\* C30: after CryptoRamp or CryptoRampWrapper has mounted without a
\* partnerUserId prop and its effect has run, the partner user id of the
\* context is the id stored under 'cb_ramp_user_id': the id that was stored
\* before when there was one, otherwise the new id just stored.
C30_ContextIdIsStoredId ==
    (probes.mount.component \in RampComponents /\ ~probes.mount.prop.present
         /\ probes.item.present) =>
        /\ probes.partnerUserId = probes.item.value
        /\ probes.mount.storedBefore.present =>
               probes.item = probes.mount.storedBefore

====
